---- MODULE Spec2Model ----
(***************************************************************************)
(* A model of src/src/client.rs: the client Service wrapper (Client::call, *)
(* Client::clone, Client::poll_ready), the non-blocking connect            *)
(* (future::Connect::connect, ClientFuture::poll) and the blocking connect *)
(* (sync::Connect::connect).                                               *)
(*                                                                         *)
(* The collaborators the file only uses are modelled by their contracts:   *)
(* tokio_proto's pipeline::Client (one FIFO of in-flight requests per      *)
(* connection), the framed transport (a response frame decodes to the      *)
(* nested result or to a DeserializeError), the crate's REMOTE (a lazily   *)
(* initialised handle to one reactor thread) and From<WireError> for       *)
(* Error.                                                                  *)
(***************************************************************************)
EXTENDS Naturals, Integers, Sequences, FiniteSets, TLC

\* ------------------------------------------------------------------ bounds
MaxConnects == 2      \* connects that reach future::Connect::connect
MaxCalls    == 3      \* calls of Client::call
MaxClones   == 1      \* calls of Client::clone

ThreadSeq == <<"t1", "t2">>         \* caller threads (none is the reactor thread)
Threads   == {ThreadSeq[i] : i \in 1..Len(ThreadSeq)}
ReactorThread == "reactor"          \* the thread that runs REMOTE's event loop
AllThreads == Threads \cup {ReactorThread}
Addrs     == {"up", "down"}        \* "down": nothing listens on the address

VARIABLES
    once,       \* state of REMOTE's one-time initialisation: "new", "running", "done"
    reactors,   \* number of reactor threads (event loops) started so far
    pc,         \* pc[t]: where thread t is; the reactor thread is "idle" while it turns
                \* its event loop, and "dead" once it terminated abnormally
    mode,       \* mode[t]: the connect thread t called last: "sync", "async", or "none"
    cur,        \* cur[t]: the connect (index of conn) that call reached, or 0
    ret,        \* ret[t]: what the thread's last connect / poll returned
    conn,       \* one record per call of future::connect: its one-shot and its reactor work
    chanSt,     \* chanSt[c]: state of the pipeline::Client built by connect c
    inflight,   \* inflight[c]: calls submitted on channel c and not yet answered, oldest first
    handles,    \* one record per Client value (built by a connect or by clone), dropped or not
    calls,      \* one record per call of Client::call, in submission order
    hist        \* history: what address resolution returned to each blocking connect
                \* that went on to connect; kept only where hist.on (ResolveSpec)

vars == <<once, reactors, pc, mode, cur, ret, conn, chanSt, inflight, handles, calls, hist>>

\* ------------------------------------------------------------------ values
\* Rust's Result, as a tagged record; payloads are [k |-> kind, v |-> number].
Ok(x)  == [tag |-> "Ok", val |-> x]
Err(x) == [tag |-> "Err", val |-> x]

Resp(n)             == [k |-> "Resp", v |-> n]
DeserializeError(n) == [k |-> "DeserializeError", v |-> n]
WireApp(n)          == [k |-> "WireError::App", v |-> n]
WireServerDeserialize(n) == [k |-> "WireError::ServerDeserialize", v |-> n]

\* The variants of ::Error<E>.
ErrorIo(n)                == [k |-> "Error::Io", v |-> n]
ErrorClientDeserialize(d) == [k |-> "Error::ClientDeserialize", v |-> d.v]
ErrorServerDeserialize(n) == [k |-> "Error::ServerDeserialize", v |-> n]
ErrorApp(n)               == [k |-> "Error::App", v |-> n]

\* The outcome of a future: its item, its error, or not resolved yet.
FutOk(item) == [fut |-> "Ok", item |-> item]
FutErr(n)   == [fut |-> "Err", item |-> [tag |-> "io::Error", val |-> [k |-> "io::Error", v |-> n]]]
Pending     == [fut |-> "Pending", item |-> [tag |-> "-", val |-> [k |-> "-", v |-> 0]]]

\* What a connect hands back: a Client (its handle), an io::Error (its kind),
\* not-ready, or a panic.
RetNone        == [tag |-> "None", h |-> 0, err |-> "-"]
RetOk(h)       == [tag |-> "Ok", h |-> h, err |-> "-"]
RetErr(kind)   == [tag |-> "Err", h |-> 0, err |-> kind]
RetNotReady    == [tag |-> "NotReady", h |-> 0, err |-> "-"]
RetPanic       == [tag |-> "Panic", h |-> 0, err |-> "-"]

FrameKinds == {"Resp", "App", "ServerDeserialize", "Corrupt"}

\* What the framed transport hands the channel for the frame answering request n.
Decode(kind, n) ==
    CASE kind = "Corrupt"           -> Err(DeserializeError(n))
      [] kind = "Resp"              -> Ok(Ok(Resp(n)))
      [] kind = "App"               -> Ok(Err(WireApp(n)))
      [] kind = "ServerDeserialize" -> Ok(Err(WireServerDeserialize(n)))

\* impl From<WireError<E>> for Error<E>.
ErrorFrom(w) ==
    IF w.k = "WireError::App" THEN ErrorApp(w.v) ELSE ErrorServerDeserialize(w.v)

\* The inner closure of Client::call, line 50: |r| r.map_err(::Error::from).
MapErrFrom(x) == IF x.tag = "Err" THEN Err(ErrorFrom(x.val)) ELSE x

\* The two conversions applied to the wrong layers: the inner WireError is
\* wrapped as a local decode failure, the outer DeserializeError converted as
\* if it were a WireError.
FlattenSwapped(r) ==
    LET mapped  == IF r.tag = "Ok"
                   THEN Ok(IF r.val.tag = "Err"
                           THEN Err(ErrorClientDeserialize(r.val.val)) ELSE r.val)
                   ELSE r
        wrapped == IF mapped.tag = "Err" THEN Err(ErrorFrom(mapped.val)) ELSE mapped
    IN IF wrapped.tag = "Ok" THEN wrapped.val ELSE wrapped

\* The closure of Client::call, lines 50-52:
\*   r.map(|r| r.map_err(::Error::from))     Result::map on the outer result
\*    .map_err(::Error::ClientDeserialize)   Result::map_err on the outer result
\*    .and_then(|r| r)                       Result::and_then with the identity
Flatten(r) ==
    LET mapped  == IF r.tag = "Ok" THEN Ok(MapErrFrom(r.val)) ELSE r
        wrapped == IF mapped.tag = "Err" THEN Err(ErrorClientDeserialize(mapped.val)) ELSE mapped
    IN IF wrapped.tag = "Ok" THEN wrapped.val ELSE wrapped

\* As CallFuture, but with the io::Error of the channel folded into the item.
CallFutureIoItem(raw) ==
    IF raw.fut = "Err" THEN FutOk(Err(ErrorIo(raw.item.val.v))) ELSE FutOk(Flatten(raw.item))

\* The future Client::call returns, given the outcome of self.inner.call(..):
\* Future::map applies the closure to the item and passes the io::Error on.
CallFuture(raw) == IF raw.fut = "Ok" THEN FutOk(Flatten(raw.item)) ELSE raw

\* ------------------------------------------------------------------ state
NoAddrs == <<>>

\* What ToSocketAddrs::to_socket_addrs can return: an error, or a list of addresses.
Resolutions ==
    {[tag |-> "Err", addrs |-> NoAddrs]} \cup
    {[tag |-> "Ok", addrs |-> a] :
        a \in {NoAddrs} \cup {<<x>> : x \in Addrs} \cup {<<x, y>> : x \in Addrs, y \in Addrs}}

\* What TcpStream::connect can resolve to for an address.
TcpOutcomes(addr) == IF addr = "down" THEN {"ConnectionRefused"} ELSE {"Ok", "TimedOut"}

\* What pipeline::connect can return.
PipelineOutcomes == {"Ok", "Other"}

ConnIds   == 1..Len(conn)
CallIds   == 1..Len(calls)
HandleIds == 1..Len(handles)

NumClones == Cardinality({h \in HandleIds : handles[h].from # 0})

Init ==
    /\ once = "new"
    /\ reactors = 0
    /\ pc = [t \in AllThreads |-> "idle"]
    /\ mode = [t \in AllThreads |-> "none"]
    /\ cur = [t \in AllThreads |-> 0]
    /\ ret = [t \in AllThreads |-> RetNone]
    /\ conn = <<>>
    /\ chanSt = <<>>
    /\ inflight = <<>>
    /\ handles = <<>>
    /\ calls = <<>>
    /\ hist = [on |-> FALSE, resolved |-> <<>>]

\* ------------------------------------------------------------------ connect
\* future::connect, lines 114-115: the one-shot is created; the caller is about
\* to evaluate REMOTE.
ConnectBegin(t, addr, m) ==
    /\ Len(conn) < MaxConnects
    /\ conn' = Append(conn, [addr |-> addr, os |-> "empty", val |-> RetNone,
                             task |-> "created", completes |-> 0, reactor |-> 0,
                             attempts |-> 0, tcp |-> "-", pipe |-> "-"])
    /\ chanSt' = Append(chanSt, "none")
    /\ inflight' = Append(inflight, <<>>)
    /\ pc' = [pc EXCEPT ![t] = "deref"]
    /\ mode' = [mode EXCEPT ![t] = m]
    /\ cur' = [cur EXCEPT ![t] = Len(conn) + 1]
    /\ ret' = [ret EXCEPT ![t] = RetNone]

\* The history after the blocking connect c got addrs from address resolution:
\* the first address and how many there were.
Record(h, c, addrs) ==
    IF h.on THEN [h EXCEPT !.resolved = Append(@, [c |-> c, first |-> addrs[1], n |-> Len(addrs)])]
    ELSE h

\* future::Connect::connect(addr), called by thread t.
future_connect(t, addr) ==
    /\ pc[t] = "idle"
    /\ ConnectBegin(t, addr, "async")
    /\ UNCHANGED <<hist, once, reactors, handles, calls>>

\* As sync_connect, but an empty resolution falls through to a connect.
sync_connect_no_empty_check(t, res) ==
    /\ pc[t] = "idle"
    /\ t = ReactorThread => reactors > 0
    /\ IF res.tag = "Err"
       THEN /\ ret' = [ret EXCEPT ![t] = RetErr("Resolve")]
            /\ mode' = [mode EXCEPT ![t] = "sync"]
            /\ cur' = [cur EXCEPT ![t] = 0]
            /\ UNCHANGED <<pc, conn, chanSt, inflight, hist>>
       ELSE /\ ConnectBegin(t, IF res.addrs = NoAddrs THEN "down" ELSE Head(res.addrs), "sync")
            /\ hist' = Record(hist, Len(conn) + 1, res.addrs)
    /\ UNCHANGED <<once, reactors, handles, calls>>

\* As sync_connect, but the connect goes to the last address of the resolution.
sync_connect_last_addr(t, res) ==
    /\ pc[t] = "idle"
    /\ t = ReactorThread => reactors > 0
    /\ IF res.tag = "Err"
       THEN /\ ret' = [ret EXCEPT ![t] = RetErr("Resolve")]
            /\ mode' = [mode EXCEPT ![t] = "sync"]
            /\ cur' = [cur EXCEPT ![t] = 0]
            /\ UNCHANGED <<pc, conn, chanSt, inflight, hist>>
       ELSE IF res.addrs = NoAddrs
       THEN /\ ret' = [ret EXCEPT ![t] = RetErr("AddrNotAvailable")]
            /\ mode' = [mode EXCEPT ![t] = "sync"]
            /\ cur' = [cur EXCEPT ![t] = 0]
            /\ UNCHANGED <<pc, conn, chanSt, inflight, hist>>
       ELSE /\ ConnectBegin(t, res.addrs[Len(res.addrs)], "sync")
            /\ hist' = Record(hist, Len(conn) + 1, res.addrs)
    /\ UNCHANGED <<once, reactors, handles, calls>>

\* As sync_connect, but a failed address resolution is unwrapped.
sync_connect_unwrap(t, res) ==
    /\ pc[t] = "idle"
    /\ t = ReactorThread => reactors > 0
    /\ IF res.tag = "Err"
       THEN /\ ret' = [ret EXCEPT ![t] = RetPanic]
            /\ pc' = [pc EXCEPT ![t] = "panicked"]
            /\ mode' = [mode EXCEPT ![t] = "sync"]
            /\ cur' = [cur EXCEPT ![t] = 0]
            /\ UNCHANGED <<conn, chanSt, inflight, hist>>
       ELSE IF res.addrs = NoAddrs
       THEN /\ ret' = [ret EXCEPT ![t] = RetErr("AddrNotAvailable")]
            /\ mode' = [mode EXCEPT ![t] = "sync"]
            /\ cur' = [cur EXCEPT ![t] = 0]
            /\ UNCHANGED <<pc, conn, chanSt, inflight, hist>>
       ELSE /\ ConnectBegin(t, Head(res.addrs), "sync")
            /\ hist' = Record(hist, Len(conn) + 1, res.addrs)
    /\ UNCHANGED <<once, reactors, handles, calls>>

\* sync::Connect::connect(addr), called by thread t, up to the call of wait():
\* res is what addr.to_socket_addrs() returns.  Work that runs on the reactor
\* thread can call it only once that thread exists.
sync_connect(t, res) ==
    /\ pc[t] = "idle"
    /\ t = ReactorThread => reactors > 0
    /\ IF res.tag = "Err"
       THEN /\ ret' = [ret EXCEPT ![t] = RetErr("Resolve")]
            /\ mode' = [mode EXCEPT ![t] = "sync"]
            /\ cur' = [cur EXCEPT ![t] = 0]
            /\ UNCHANGED <<pc, conn, chanSt, inflight, hist>>
       ELSE IF res.addrs = NoAddrs
       THEN /\ ret' = [ret EXCEPT ![t] = RetErr("AddrNotAvailable")]
            /\ mode' = [mode EXCEPT ![t] = "sync"]
            /\ cur' = [cur EXCEPT ![t] = 0]
            /\ UNCHANGED <<pc, conn, chanSt, inflight, hist>>
       ELSE /\ ConnectBegin(t, Head(res.addrs), "sync")
            /\ hist' = Record(hist, Len(conn) + 1, res.addrs)
    /\ UNCHANGED <<once, reactors, handles, calls>>

\* Oneshot: Complete::complete(v) fills the one-shot and consumes the write side;
\* dropping the write side without completing cancels it.
OneshotComplete(cr, v) ==
    [cr EXCEPT !.os = IF @ = "empty" THEN "full" ELSE @,
               !.val = IF cr.os = "empty" THEN v ELSE @,
               !.completes = @ + 1]
OneshotDropTx(cr) == [cr EXCEPT !.os = IF @ = "empty" THEN "canceled" ELSE @]

\* REMOTE is evaluated for the first time: the thread that finds it
\* uninitialised runs the initialiser, the others wait until it is done.
RemoteInitBegin(t) ==
    /\ pc[t] = "deref"
    /\ once = "new"
    /\ once' = "running"
    /\ pc' = [pc EXCEPT ![t] = "init"]
    /\ UNCHANGED <<hist, reactors, mode, cur, ret, conn, chanSt, inflight, handles, calls>>

\* The initialiser of REMOTE starts the reactor thread and publishes its handle.
RemoteInitEnd(t) ==
    /\ pc[t] = "init"
    /\ reactors' = reactors + 1
    /\ once' = "done"
    /\ pc' = [pc EXCEPT ![t] = "deref"]
    /\ UNCHANGED <<hist, mode, cur, ret, conn, chanSt, inflight, handles, calls>>

\* future::connect, lines 116 and 128: REMOTE.spawn(..) hands the work to the
\* reactor; connect returns the ClientFuture (sync::connect goes on to wait()).
ConnectSpawnOwnLoop(t) ==
    /\ pc[t] = "deref"
    /\ reactors' = reactors + 1
    /\ conn' = [conn EXCEPT ![cur[t]].task = "queued", ![cur[t]].reactor = reactors + 1]
    /\ pc' = [pc EXCEPT ![t] = IF mode[t] = "sync" THEN "wait" ELSE "poll"]
    /\ UNCHANGED <<hist, once, mode, cur, ret, chanSt, inflight, handles, calls>>

\* A reactor that terminated drops the closure it is sent, and with it tx.
ConnectSpawn(t) ==
    /\ pc[t] = "deref"
    /\ once = "done"
    /\ conn' = [conn EXCEPT ![cur[t]] =
                    IF pc[ReactorThread] = "dead"
                    THEN [OneshotDropTx(@) EXCEPT !.task = "abandoned", !.reactor = reactors]
                    ELSE [@ EXCEPT !.task = "queued", !.reactor = reactors]]
    /\ pc' = [pc EXCEPT ![t] = IF mode[t] = "sync" THEN "wait" ELSE "poll"]
    /\ UNCHANGED <<hist, once, reactors, mode, cur, ret, chanSt, inflight, handles, calls>>

\* As ReactorRun, but the closure is run although the reactor thread is not
\* turning its event loop.
ReactorRunWhileBlocked(c) ==
    /\ c \in ConnIds
    /\ conn[c].task = "queued"
    /\ conn' = [conn EXCEPT ![c].task = "connecting", ![c].attempts = @ + 1]
    /\ UNCHANGED <<hist, once, reactors, pc, mode, cur, ret, chanSt, inflight, handles, calls>>

\* The reactor runs the spawned closure, lines 117-118: the TCP connection attempt
\* starts.  The reactor thread runs it from its event loop, so not while that
\* thread is inside a blocking connect or has terminated.
ReactorRun(c) ==
    /\ c \in ConnIds
    /\ pc[ReactorThread] = "idle"
    /\ conn[c].task = "queued"
    /\ conn' = [conn EXCEPT ![c].task = "connecting", ![c].attempts = @ + 1]
    /\ UNCHANGED <<hist, once, reactors, pc, mode, cur, ret, chanSt, inflight, handles, calls>>

\* As AndThenBuild, but the error of pipeline::connect is not returned by try!.
AndThenBuildIgnoresTry(tcp, pipe, h) ==
    IF tcp # "Ok" THEN RetErr(tcp) ELSE RetOk(h)

\* Lines 119-125: and_then builds the channel and the Client when the TCP
\* connection succeeded (try! returns pipeline::connect's error), and passes a
\* TCP error on.  h is the Client built on success.
AndThenBuild(tcp, pipe, h) ==
    IF tcp # "Ok" THEN RetErr(tcp)
    ELSE IF pipe # "Ok" THEN RetErr(pipe)
    ELSE RetOk(h)

\* Line 126: .then(|client| Ok(tx.complete(client))) runs on success and on failure.
ThenCompleteOnlyOk(cr, client) ==
    IF client.tag = "Ok" THEN OneshotComplete(cr, client) ELSE OneshotDropTx(cr)

ThenComplete(cr, client) == OneshotComplete(cr, client)

\* The reactor sees the TCP connection attempt of connect c end with tcp, and
\* (on success) pipeline::connect return pipe: lines 119-126.
ReactorConnected(c, tcp, pipe) ==
    /\ c \in ConnIds
    /\ pc[ReactorThread] = "idle"
    /\ conn[c].task = "connecting"
    /\ tcp \in TcpOutcomes(conn[c].addr)
    /\ pipe \in PipelineOutcomes
    /\ tcp # "Ok" => pipe = "Ok"      \* the closure of and_then is not run
    /\ LET h      == Len(handles) + 1
           client == AndThenBuild(tcp, pipe, h)
       IN /\ conn' = [conn EXCEPT ![c] = [ThenComplete(@, client) EXCEPT
                                          !.task = "done", !.tcp = tcp,
                                          !.pipe = IF tcp = "Ok" THEN pipe ELSE "-"]]
          /\ IF client.tag = "Ok"
             THEN /\ handles' = Append(handles, [inner |-> c, root |-> c, owner |-> "-", from |-> 0, alive |-> TRUE])
                  /\ chanSt' = [chanSt EXCEPT ![c] = "open"]
             ELSE UNCHANGED <<handles, chanSt>>
    /\ UNCHANGED <<hist, once, reactors, pc, mode, cur, ret, inflight, calls>>

\* The reactor thread terminates abnormally: its event loop is dropped, and with
\* it every closure and future it still holds, so the write side of each
\* one-shot that was not completed is dropped without complete().
ReactorAbort ==
    /\ reactors > 0
    /\ pc[ReactorThread] = "idle"
    /\ pc' = [pc EXCEPT ![ReactorThread] = "dead"]
    /\ conn' = [c \in ConnIds |->
                   IF conn[c].task \in {"queued", "connecting"}
                   THEN [OneshotDropTx(conn[c]) EXCEPT !.task = "abandoned"]
                   ELSE conn[c]]
    /\ UNCHANGED <<hist, once, reactors, mode, cur, ret, chanSt, inflight, handles, calls>>

\* ClientFuture::poll, lines 95-101, on the one-shot cr: the client, the error,
\* not-ready, or the panic of unwrap() on a cancelled one-shot.
\* As ClientFuturePoll, but a cancelled one-shot is reported as not ready.
ClientFuturePollCanceledNotReady(cr) ==
    CASE cr.os = "empty"    -> RetNotReady
      [] cr.os = "full"     -> cr.val
      [] cr.os = "canceled" -> RetNotReady
      [] OTHER              -> RetPanic

ClientFuturePoll(cr) ==
    CASE cr.os = "empty"    -> RetNotReady
      [] cr.os = "full"     -> cr.val
      [] cr.os = "canceled" -> RetPanic
      [] OTHER              -> RetPanic   \* polled again after it resolved

\* Thread t receives r from its connect.
Receive(t, r) ==
    /\ ret' = [ret EXCEPT ![t] = r]
    /\ pc' = [pc EXCEPT ![t] = CASE r.tag = "NotReady" -> pc[t]
                                  [] r.tag = "Panic"    -> "panicked"
                                  [] OTHER              -> "idle"]
    /\ conn' = [conn EXCEPT ![cur[t]].os = IF @ = "full" THEN "taken" ELSE @]
    /\ handles' = IF r.tag = "Ok" THEN [handles EXCEPT ![r.h].owner = t] ELSE handles

\* Thread t polls the ClientFuture future::connect returned.
poll(t) ==
    /\ pc[t] = "poll"
    /\ Receive(t, ClientFuturePoll(conn[cur[t]]))
    /\ UNCHANGED <<hist, once, reactors, mode, cur, chanSt, inflight, calls>>

\* sync::connect, line 162: wait() returns once the future is not not-ready.
wait(t) ==
    /\ pc[t] = "wait"
    /\ ClientFuturePoll(conn[cur[t]]).tag # "NotReady"
    /\ Receive(t, ClientFuturePoll(conn[cur[t]]))
    /\ UNCHANGED <<hist, once, reactors, mode, cur, chanSt, inflight, calls>>

\* ------------------------------------------------------------------ client
\* Client::clone, line 30: the channel the clone's inner refers to.
CloneInnerOther(hr) == (hr.inner % Len(conn)) + 1

CloneInner(hr) == hr.inner

\* As clone, but the clone gets a channel of its own over a new connection.
clone_opens_channel(t, h, t2) ==
    /\ h \in HandleIds
    /\ handles[h].alive
    /\ handles[h].owner = t
    /\ pc[t] = "idle"
    /\ t2 # t
    /\ NumClones < MaxClones
    /\ conn' = Append(conn, [conn[handles[h].inner] EXCEPT !.val = RetNone])
    /\ chanSt' = Append(chanSt, "open")
    /\ inflight' = Append(inflight, <<>>)
    /\ handles' = Append(handles, [inner |-> Len(conn) + 1,
                                   root |-> handles[h].root, owner |-> t2, from |-> h, alive |-> TRUE])
    /\ UNCHANGED <<hist, once, reactors, pc, mode, cur, ret, calls>>

\* Thread t clones the Client h it owns and sends the clone to another thread t2.
clone(t, h, t2) ==
    /\ h \in HandleIds
    /\ handles[h].alive
    /\ handles[h].owner = t
    /\ pc[t] = "idle"
    /\ t2 # t
    /\ NumClones < MaxClones
    /\ handles' = Append(handles, [inner |-> CloneInner(handles[h]),
                                   root |-> handles[h].root, owner |-> t2, from |-> h, alive |-> TRUE])
    /\ UNCHANGED <<hist, once, reactors, pc, mode, cur, ret, conn, chanSt, inflight, calls>>

\* Thread t drops the Client h it owns (lines 20-26: the Client owns its
\* handle of the channel).  The channel is released when the last Client that
\* refers to it is dropped.
drop(t, h) ==
    /\ h \in HandleIds
    /\ handles[h].alive
    /\ handles[h].owner = t
    /\ pc[t] = "idle"
    /\ handles' = [handles EXCEPT ![h].alive = FALSE]
    /\ LET c == handles[h].inner
       IN chanSt' = IF chanSt[c] = "open"
                       /\ \A g \in HandleIds \ {h} : handles[g].alive => handles[g].inner # c
                    THEN [chanSt EXCEPT ![c] = "closed"]
                    ELSE chanSt
    /\ UNCHANGED <<hist, once, reactors, pc, mode, cur, ret, conn, inflight, calls>>

\* As poll_ready, but not ready while a call is in flight on the channel or
\* after the channel failed.
poll_ready_backpressure(h) ==
    IF inflight[handles[h].inner] # <<>> \/ chanSt[handles[h].inner] = "broken"
    THEN "NotReady" ELSE "Ready"

\* Client::poll_ready, lines 44-46.
poll_ready(h) == "Ready"

\* pipeline::Client::call: the request joins the tail of the channel's queue.
PipelineSubmit(q, k) == Append(q, k)

\* As InnerCall, but the request is submitted a second time.
InnerCallTwice(q, k) == PipelineSubmit(PipelineSubmit(q, k), k)

\* Line 49: self.inner.call(pipeline::Message::WithoutBody(request)), the
\* queue of the channel after call k was made on it.
InnerCall(q, k) == PipelineSubmit(q, k)

\* Client::call, lines 48-54, by thread t on the Client h it owns.  On a
\* channel whose connection is gone the pipeline fails the call at once.
call(t, h) ==
    /\ h \in HandleIds
    /\ handles[h].alive
    /\ handles[h].owner = t
    /\ pc[t] = "idle"
    /\ Len(calls) < MaxCalls
    /\ LET k == Len(calls) + 1
           c == handles[h].inner
       IN IF chanSt[c] = "open"
          THEN /\ inflight' = [inflight EXCEPT ![c] = InnerCall(@, k)]
               /\ calls' = Append(calls, [chan |-> c, root |-> handles[h].root, viaClone |-> (handles[h].from # 0),
                                          served |-> "none", res |-> Pending])
          ELSE /\ calls' = Append(calls, [chan |-> c, root |-> handles[h].root, viaClone |-> (handles[h].from # 0),
                                          served |-> "io", res |-> CallFuture(FutErr(k))])
               /\ UNCHANGED inflight
    /\ UNCHANGED <<hist, once, reactors, pc, mode, cur, ret, conn, chanSt, handles>>

\* A response frame of the given kind arrives on channel c: the pipeline binds
\* it to the oldest in-flight call, whose future (built by Client::call) resolves.
\* A released channel still delivers what is in flight on it.
Respond(c, kind) ==
    /\ c \in ConnIds
    /\ chanSt[c] \in {"open", "closed"}
    /\ inflight[c] # <<>>
    /\ LET k == Head(inflight[c])
       IN calls' = [calls EXCEPT ![k].served = kind,
                                 ![k].res = CallFuture(FutOk(Decode(kind, k)))]
    /\ inflight' = [inflight EXCEPT ![c] = Tail(@)]
    /\ UNCHANGED <<hist, once, reactors, pc, mode, cur, ret, conn, chanSt, handles>>

InQueue(q) == {q[i] : i \in 1..Len(q)}

\* The connection of channel c fails: every call in flight on it fails with
\* the io::Error.
TransportFail(c) ==
    /\ c \in ConnIds
    /\ chanSt[c] \in {"open", "closed"}
    /\ inflight[c] # <<>>
    /\ chanSt' = [chanSt EXCEPT ![c] = "broken"]
    /\ calls' = [k \in CallIds |->
                    IF k \in InQueue(inflight[c])
                    THEN [calls[k] EXCEPT !.served = "io", !.res = CallFuture(FutErr(k))]
                    ELSE calls[k]]
    /\ inflight' = [inflight EXCEPT ![c] = <<>>]
    /\ UNCHANGED <<hist, once, reactors, pc, mode, cur, ret, conn, handles>>

\* ------------------------------------------------------------------ specifications
\* Connection establishment and calls are checked apart: ConnectSpec runs the
\* callers, REMOTE and the reactor from the start of the process; CallSpec runs
\* clone, call and the channels from the state Connected, which ConnectSpec
\* reaches (C7_Witness).
TcpResults == UNION {TcpOutcomes(a) : a \in Addrs}

\* Connection establishment: the callers, REMOTE and the reactor.
NextConnect ==
    \/ \E t \in Threads, a \in Addrs : future_connect(t, a)
    \/ \E t \in Threads, r \in Resolutions : sync_connect(t, r)
    \/ \E t \in Threads : RemoteInitBegin(t)
    \/ \E t \in Threads : RemoteInitEnd(t)
    \/ \E t \in Threads : ConnectSpawn(t)
    \/ \E c \in 1..MaxConnects : ReactorRun(c)
    \/ \E c \in 1..MaxConnects, tcp \in TcpResults, pipe \in PipelineOutcomes :
          ReactorConnected(c, tcp, pipe)
    \/ \E t \in Threads : poll(t)
    \/ \E t \in Threads : wait(t)

ConnectSpec == Init /\ [][NextConnect]_vars

\* The reactor thread runs the work it was given, and a thread inside connect
\* goes on running: it finishes REMOTE's initialisation, spawns, and wait()
\* returns once the one-shot is resolved.
Fairness ==
    /\ \A c \in 1..MaxConnects : WF_vars(ReactorRun(c))
    /\ \A c \in 1..MaxConnects :
          WF_vars(\E tcp \in TcpResults, pipe \in PipelineOutcomes :
                     ReactorConnected(c, tcp, pipe))
    /\ \A t \in Threads : WF_vars(RemoteInitBegin(t))
    /\ \A t \in Threads : WF_vars(RemoteInitEnd(t))
    /\ \A t \in Threads : WF_vars(ConnectSpawn(t))
    /\ \A t \in Threads : WF_vars(wait(t))

FairConnectSpec == ConnectSpec /\ Fairness

\* The state after every caller thread made one successful blocking connect: thread
\* ThreadSeq[i] owns the Client of connect i, and no call was made yet.
Connected ==
    /\ once = "done"
    /\ reactors = 1
    /\ pc = [t \in AllThreads |-> "idle"]
    /\ mode = [t \in AllThreads |-> IF t \in Threads THEN "sync" ELSE "none"]
    /\ cur = [t \in AllThreads |-> IF t \in Threads
                                   THEN CHOOSE i \in 1..Len(ThreadSeq) : ThreadSeq[i] = t
                                   ELSE 0]
    /\ ret = [t \in AllThreads |-> IF t \in Threads
                                   THEN RetOk(CHOOSE i \in 1..Len(ThreadSeq) : ThreadSeq[i] = t)
                                   ELSE RetNone]
    /\ conn = [i \in 1..Len(ThreadSeq) |->
                  [addr |-> "up", os |-> "taken", val |-> RetOk(i), task |-> "done",
                   completes |-> 1, reactor |-> 1, attempts |-> 1, tcp |-> "Ok", pipe |-> "Ok"]]
    /\ chanSt = [i \in 1..Len(ThreadSeq) |-> "open"]
    /\ inflight = [i \in 1..Len(ThreadSeq) |-> <<>>]
    /\ handles = [i \in 1..Len(ThreadSeq) |->
                     [inner |-> i, root |-> i, owner |-> ThreadSeq[i], from |-> 0, alive |-> TRUE]]
    /\ calls = <<>>
    /\ hist = [on |-> FALSE, resolved |-> <<>>]

\* Calls on the Clients of established connections.
NextCall ==
    \/ \E t \in Threads, t2 \in Threads, h \in 1..(Len(ThreadSeq) + MaxClones) : clone(t, h, t2)
    \/ \E t \in Threads, h \in 1..(Len(ThreadSeq) + MaxClones) : call(t, h)
    \/ \E c \in 1..Len(ThreadSeq), kind \in FrameKinds : Respond(c, kind)
    \/ \E c \in 1..Len(ThreadSeq) : TransportFail(c)

CallSpec == Connected /\ [][NextCall]_vars

\* Calls, clones and drops of the Clients of established connections.  What a
\* response frame holds makes no difference to who owns a channel (CallSpec
\* runs every kind of frame), so the server answers with responses only.
NextDrop ==
    \/ \E t \in Threads, t2 \in Threads, h \in 1..(Len(ThreadSeq) + MaxClones) : clone(t, h, t2)
    \/ \E t \in Threads, h \in 1..(Len(ThreadSeq) + MaxClones) : call(t, h)
    \/ \E c \in 1..Len(ThreadSeq) : Respond(c, "Resp")
    \/ \E c \in 1..Len(ThreadSeq) : TransportFail(c)
    \/ \E t \in Threads, h \in 1..(Len(ThreadSeq) + MaxClones) : drop(t, h)

DropSpec == Connected /\ [][NextDrop]_vars

\* Connection establishment followed by calls on the Clients it yields, on
\* connections that can fail (the answers to calls are left to CallSpec).
NextRetry ==
    \/ NextConnect
    \/ \E t \in Threads, h \in 1..MaxConnects : call(t, h)
    \/ \E c \in 1..MaxConnects : TransportFail(c)

RetrySpec == Init /\ [][NextRetry]_vars

\* Connection establishment with a reactor thread that can terminate abnormally.
NextAbort ==
    \/ NextConnect
    \/ ReactorAbort

AbortSpec == Init /\ [][NextAbort]_vars

\* Connection establishment, with the history of address resolutions kept.
InitResolve ==
    /\ once = "new"
    /\ reactors = 0
    /\ pc = [t \in AllThreads |-> "idle"]
    /\ mode = [t \in AllThreads |-> "none"]
    /\ cur = [t \in AllThreads |-> 0]
    /\ ret = [t \in AllThreads |-> RetNone]
    /\ conn = <<>>
    /\ chanSt = <<>>
    /\ inflight = <<>>
    /\ handles = <<>>
    /\ calls = <<>>
    /\ hist = [on |-> TRUE, resolved |-> <<>>]

ResolveSpec == InitResolve /\ [][NextConnect]_vars

\* Connection establishment where work running on the reactor thread also
\* calls the blocking connect.
NextOnReactor ==
    \/ NextConnect
    \/ \E r \in Resolutions : sync_connect(ReactorThread, r)
    \/ ConnectSpawn(ReactorThread)
    \/ wait(ReactorThread)

OnReactorSpec == Init /\ [][NextOnReactor]_vars

\* ------------------------------------------------------------------ claims
Resolved(k) == calls[k].res # Pending

\* C1: on one Client and its clones, responses are observed in submission
\* order: a call is never resolved while an earlier call of the same Client
\* family is still pending, and every resolved call holds the response (or the
\* failure) produced for its own request.
C1_ResponsesInSubmissionOrder ==
    /\ \A k \in CallIds : Resolved(k) => calls[k].res.item.val.v = k
    /\ \A k1 \in CallIds, k2 \in CallIds :
          (k1 < k2 /\ calls[k1].root = calls[k2].root /\ Resolved(k2)) => Resolved(k1)

\* Two calls, one made on a Client and one on its clone, both answered.
C1_Witness ==
    \E k1 \in CallIds, k2 \in CallIds :
        /\ k1 < k2
        /\ calls[k1].root = calls[k2].root
        /\ calls[k1].viaClone # calls[k2].viaClone
        /\ calls[k1].res = FutOk(Ok(Resp(k1)))
        /\ calls[k2].res = FutOk(Ok(Resp(k2)))

\* A flat result: Ok(response) or Err(one of the variants of Error).
IsFlat(item) ==
    /\ DOMAIN item = {"tag", "val"}
    /\ DOMAIN item.val = {"k", "v"}
    /\ \/ item.tag = "Ok" /\ item.val.k = "Resp"
       \/ item.tag = "Err" /\ item.val.k \in {"Error::Io", "Error::ClientDeserialize",
                                                "Error::ServerDeserialize", "Error::App"}

\* C2: the value of a call is the flattening of the nested channel result:
\* Ok(Ok(resp)) gives Ok(resp), a local decode failure gives
\* Err(ClientDeserialize), WireError::App gives Err(App),
\* WireError::ServerDeserialize gives Err(ServerDeserialize); nothing nested is exposed.
C2_Flattening ==
    \A k \in CallIds :
        /\ calls[k].served = "Resp" => calls[k].res = FutOk(Ok(Resp(k)))
        /\ calls[k].served = "Corrupt" =>
              calls[k].res = FutOk(Err([k |-> "Error::ClientDeserialize", v |-> k]))
        /\ calls[k].served = "App" => calls[k].res = FutOk(Err([k |-> "Error::App", v |-> k]))
        /\ calls[k].served = "ServerDeserialize" =>
              calls[k].res = FutOk(Err([k |-> "Error::ServerDeserialize", v |-> k]))
        /\ calls[k].res.fut = "Ok" => IsFlat(calls[k].res.item)

\* Three answered calls: a response, a frame that failed to decode, and a
\* server-side decode failure.
C2_Witness ==
    \E k1 \in CallIds, k2 \in CallIds, k3 \in CallIds :
        /\ calls[k1].served = "Resp" /\ Resolved(k1)
        /\ calls[k2].served = "Corrupt" /\ Resolved(k2)
        /\ calls[k3].served = "ServerDeserialize" /\ Resolved(k3)

C9_AppErrorOnlyForItsCall ==
    \A k \in CallIds :
        /\ calls[k].served = "App" => calls[k].res = FutOk(Err(ErrorApp(k)))
        /\ (calls[k].res.fut = "Ok" /\ calls[k].res.item.val.k = "Error::App") =>
              calls[k].served = "App"
        /\ calls[k].served = "App" =>
              \A j \in CallIds \ {k} :
                  calls[j].chan = calls[k].chan =>
                      /\ calls[j].served = "Resp" => calls[j].res = FutOk(Ok(Resp(j)))
                      /\ calls[j].served = "none" => calls[j].res = Pending

\* Calls k-1, k, k+1 on one channel, answered by a response, an application
\* error and a response.
C9_Witness ==
    \E k \in CallIds :
        /\ k - 1 \in CallIds /\ k + 1 \in CallIds
        /\ calls[k - 1].chan = calls[k].chan /\ calls[k + 1].chan = calls[k].chan
        /\ calls[k - 1].res = FutOk(Ok(Resp(k - 1)))
        /\ calls[k].res = FutOk(Err(ErrorApp(k)))
        /\ calls[k + 1].res = FutOk(Ok(Resp(k + 1)))

\* The calls of the Clients of other connects, and those connects' channels.
OthersOf(k) == {j \in CallIds : calls[j].root # calls[k].root}

\* C10: a response frame that fails to decode resolves the call awaiting it to
\* the client-decode-error case; the step changes no call and no channel of any
\* other connect, and every call of another connect is either resolved or
\* still queued on an open channel, where its own response reaches it.
C10_DecodeFailureIsolated ==
    /\ [][\A k \in CallIds :
            (calls[k].served = "none" /\ calls'[k].served = "Corrupt") =>
                /\ calls'[k].res = FutOk(Err([k |-> "Error::ClientDeserialize", v |-> k]))
                /\ \A j \in OthersOf(k) :
                      /\ calls'[j] = calls[j]
                      /\ chanSt'[calls[j].chan] = chanSt[calls[j].chan]
                      /\ inflight'[calls[j].chan] = inflight[calls[j].chan]]_vars
    /\ [](\A j \in CallIds :
            (calls[j].served = "none") =>
                /\ calls[j].res = Pending
                /\ chanSt[calls[j].chan] = "open"
                /\ j \in InQueue(inflight[calls[j].chan]))
    /\ [](\A j \in CallIds : calls[j].served = "Resp" => calls[j].res = FutOk(Ok(Resp(j))))

\* A call resolved to the client-decode error while a call of another connect
\* is in flight.
C10_Witness ==
    \E k \in CallIds, j \in CallIds :
        /\ calls[k].res = FutOk(Err([k |-> "Error::ClientDeserialize", v |-> k]))
        /\ calls[j].root # calls[k].root
        /\ calls[j].chan # calls[k].chan
        /\ j < k
        /\ calls[j].res = Pending
        /\ j \in InQueue(inflight[calls[j].chan])

Completed(c) == conn[c].os \in {"full", "taken"}

\* C4: the one-shot of every connect is completed exactly once by the work the
\* reactor runs: never before that work ends, never twice, never dropped
\* uncompleted; with Ok(client) when the TCP connection and the channel
\* construction both succeed, with the error of whichever failed otherwise.
C4_OneshotCompletedExactlyOnce ==
    \A c \in ConnIds :
        /\ conn[c].completes <= 1
        /\ conn[c].os # "canceled"
        /\ conn[c].task # "done" => (conn[c].completes = 0 /\ conn[c].os = "empty")
        /\ conn[c].task = "done" =>
              /\ conn[c].completes = 1
              /\ Completed(c)
              /\ (conn[c].tcp = "Ok" /\ conn[c].pipe = "Ok") =>
                    (conn[c].val.tag = "Ok" /\ handles[conn[c].val.h].inner = c)
              /\ conn[c].tcp # "Ok" => conn[c].val = RetErr(conn[c].tcp)
              /\ (conn[c].tcp = "Ok" /\ conn[c].pipe # "Ok") => conn[c].val = RetErr(conn[c].pipe)

\* One connect whose TCP connection failed and one whose channel construction failed.
C4_Witness ==
    \E c1 \in ConnIds, c2 \in ConnIds :
        /\ conn[c1].task = "done" /\ conn[c1].tcp = "TimedOut"
        /\ conn[c2].task = "done" /\ conn[c2].tcp = "Ok" /\ conn[c2].pipe = "Other"

\* C5: a connect to an address on which nothing listens resolves to the
\* connection error: its one-shot is eventually completed with
\* Err(ConnectionRefused), a blocking connect eventually returns that error,
\* and no caller of such a connect gets a client or panics.
C5_NotListeningYieldsError ==
    /\ \A c \in 1..MaxConnects :
          (c \in ConnIds /\ conn[c].addr = "down")
              ~> (c \in ConnIds /\ Completed(c) /\ conn[c].val = RetErr("ConnectionRefused"))
    /\ \A t \in Threads :
          (mode[t] = "sync" /\ pc[t] # "idle" /\ cur[t] # 0 /\ conn[cur[t]].addr = "down")
              ~> (pc[t] = "idle" /\ ret[t] = RetErr("ConnectionRefused"))
    /\ [](\A t \in Threads :
            (cur[t] # 0 /\ conn[cur[t]].addr = "down") =>
                /\ pc[t] # "panicked"
                /\ ret[t] \in {RetNone, RetNotReady, RetErr("ConnectionRefused")})

\* A blocking and a non-blocking connect to the address, both answered with the error.
C5_Witness ==
    \E t1 \in Threads, t2 \in Threads :
        /\ mode[t1] = "sync" /\ mode[t2] = "async"
        /\ pc[t1] = "idle" /\ pc[t2] = "idle"
        /\ cur[t1] # 0 /\ cur[t2] # 0
        /\ conn[cur[t1]].addr = "down" /\ conn[cur[t2]].addr = "down"
        /\ ret[t1] = RetErr("ConnectionRefused") /\ ret[t2] = RetErr("ConnectionRefused")

EmptyResolution == [tag |-> "Ok", addrs |-> NoAddrs]

\* C6: a blocking connect whose address source resolves to no address returns
\* Err(AddrNotAvailable) at once: the step creates no one-shot, submits no work
\* to the reactor, starts no reactor and attempts no connection.
C6_EmptyResolutionFailsLocally ==
    [][\A t \in Threads :
          sync_connect(t, EmptyResolution) =>
              /\ ret'[t] = RetErr("AddrNotAvailable")
              /\ pc'[t] = "idle"
              /\ UNCHANGED <<once, reactors, conn, chanSt, inflight, handles>>]_vars

\* A blocking connect returned address-unavailable where no connect was ever made.
C6_Witness ==
    \E t \in Threads :
        /\ ret[t] = RetErr("AddrNotAvailable") /\ mode[t] = "sync" /\ pc[t] = "idle"
        /\ conn = <<>> /\ once = "new" /\ reactors = 0

InSyncConnect(t) == mode[t] = "sync" /\ pc[t] \in {"deref", "init", "wait"}

\* C7: a blocking connect called from a caller thread eventually returns; it
\* returns Ok(client) exactly when the TCP connection and the channel
\* construction succeeded, and the thread then owns that Client, on an open
\* channel and ready for call().
C7_BlockingConnectReturns ==
    /\ \A t \in Threads : InSyncConnect(t) ~> (mode[t] = "sync" /\ pc[t] = "idle")
    /\ [](\A t \in Threads :
            (mode[t] = "sync" /\ pc[t] = "idle" /\ cur[t] # 0) =>
                /\ ret[t] = conn[cur[t]].val
                /\ ret[t].tag = "Ok" <=> (conn[cur[t]].tcp = "Ok" /\ conn[cur[t]].pipe = "Ok")
                /\ ret[t].tag = "Ok" =>
                      /\ handles[ret[t].h].owner = t
                      /\ handles[ret[t].h].inner = cur[t]
                      /\ chanSt[cur[t]] = "open"
                      /\ poll_ready(ret[t].h) = "Ready")

\* Every caller thread is back from a successful blocking connect and owns its Client.
C7_Witness == Connected

Family(r) == {h \in HandleIds : handles[h].root = r}

\* C11: the Clients of two separate connects own two distinct channels, and
\* dropping a Client changes nothing of another connect: the step leaves the
\* other connects' channels, queues and calls as they were, and every call in
\* flight on them stays queued on a channel that still delivers its response.
C11_DropLeavesOtherConnect ==
    /\ [](\A g \in HandleIds, h \in HandleIds :
            handles[g].root # handles[h].root => handles[g].inner # handles[h].inner)
    /\ [][\A h \in HandleIds :
            (handles[h].alive /\ ~handles'[h].alive) =>
                /\ \A c \in ConnIds \ {handles[h].root} :
                      chanSt'[c] = chanSt[c] /\ inflight'[c] = inflight[c]
                /\ calls' = calls]_vars
    /\ [](\A k \in CallIds :
            calls[k].res = Pending =>
                /\ k \in InQueue(inflight[calls[k].chan])
                /\ chanSt[calls[k].chan] \in {"open", "closed"}
                /\ calls[k].chan = calls[k].root)

\* The Client of connect 1 and its clone are dropped, its channel is released,
\* and a call is in flight on the Client of connect 2.
C11_Witness ==
    /\ \E h \in Family(1) : handles[h].from # 0
    /\ \A h \in Family(1) : ~handles[h].alive
    /\ chanSt[1] = "closed"
    /\ \E k \in CallIds : calls[k].root = 2 /\ calls[k].res = Pending
                          /\ k \in InQueue(inflight[2])

\* The connects that built a channel.
SuccessfulConnects == {c \in ConnIds : conn[c].val.tag = "Ok"}
Channels == {c \in 1..Len(chanSt) : chanSt[c] # "none"}

\* C12: cloning opens no connection and creates no channel: whatever clones,
\* calls and drops were made, every clone refers to the channel of the Client
\* it was cloned from, the channels are exactly those the successful connects
\* built, and a clone step leaves connections, channels and queues as they were.
C12_CloneSharesChannel ==
    /\ [](\A h \in HandleIds :
            handles[h].from # 0 =>
                /\ handles[h].from \in HandleIds
                /\ handles[h].inner = handles[handles[h].from].inner)
    /\ [](Channels = SuccessfulConnects /\ Len(chanSt) = Len(conn) /\ Len(inflight) = Len(conn))
    /\ [][Len(handles') > Len(handles) =>
            (conn' = conn /\ chanSt' = chanSt /\ inflight' = inflight)]_vars

\* A Client was cloned and then dropped, and a call made through its clone is
\* in flight on the channel the two share.
C12_Witness ==
    \E h \in HandleIds :
        /\ handles[h].from # 0
        /\ handles[h].alive
        /\ ~handles[handles[h].from].alive
        /\ \E k \in CallIds : calls[k].viaClone /\ calls[k].res = Pending
                              /\ calls[k].chan = handles[handles[h].from].inner

\* ------------------------------------------------------------------ reactor failure
\* The connects whose reactor-side work was abandoned without complete().
Abandoned == {c \in ConnIds : conn[c].task = "abandoned"}

SeveralAddrs == {i \in 1..Len(hist.resolved) : hist.resolved[i].n >= 2}

\* C16: a blocking connect whose resolution holds several addresses makes one
\* connect, to the first of them, and that connect makes at most one connection
\* attempt; when the attempt fails the caller gets its error, and nothing of
\* the connect changes afterwards: no later address is tried.
C16_FirstAddressOnly ==
    /\ [](\A i \in SeveralAddrs :
            LET e == hist.resolved[i]
            IN /\ e.c \in ConnIds
               /\ \A j \in 1..Len(hist.resolved) : hist.resolved[j].c = e.c => j = i
               /\ conn[e.c].addr = e.first
               /\ conn[e.c].attempts <= 1
               /\ conn[e.c].task = "done" => conn[e.c].attempts = 1
               /\ \A t \in Threads :
                     (cur[t] = e.c /\ pc[t] = "idle") =>
                         /\ conn[e.c].task = "done"
                         /\ ret[t] = conn[e.c].val
                         /\ conn[e.c].tcp # "Ok" => ret[t] = RetErr(conn[e.c].tcp))
    /\ [][\A c \in ConnIds :
            /\ conn'[c].addr = conn[c].addr
            /\ conn[c].task = "done" =>
                  (conn'[c].task = "done" /\ conn'[c].attempts = conn[c].attempts)]_vars
    /\ [][Len(conn') > Len(conn) =>
            \E t \in Threads :
                /\ pc[t] = "idle" /\ pc'[t] = "deref"
                /\ Len(conn') = Len(conn) + 1 /\ cur'[t] = Len(conn')
                /\ Len(hist.resolved') <= Len(hist.resolved) + 1]_vars

\* The resolution held two addresses, the first of them dead: the
\* blocking connect returned the refusal of its one attempt, at the first.
C16_Witness ==
    \E i \in SeveralAddrs, t \in Threads :
        LET e == hist.resolved[i]
        IN /\ e.first = "down" /\ e.n = 2
           /\ cur[t] = e.c /\ mode[t] = "sync" /\ pc[t] = "idle"
           /\ ret[t] = RetErr("ConnectionRefused")
           /\ conn[e.c].attempts = 1
           /\ Len(conn) = 1

FailedResolution == [tag |-> "Err", addrs |-> NoAddrs]

\* C19: a blocking connect whose address resolution fails returns that error
\* to its caller at once: the thread does not panic, the step creates no
\* one-shot, submits no work to the reactor (REMOTE is not even evaluated) and
\* attempts no connection.
C19_ResolutionErrorReturned ==
    /\ [][\A t \in Threads :
            sync_connect(t, FailedResolution) =>
                /\ ret'[t] = RetErr("Resolve")
                /\ pc'[t] = "idle"
                /\ cur'[t] = 0
                /\ UNCHANGED <<once, reactors, conn, chanSt, inflight, handles>>]_vars
    /\ [](\A t \in Threads : ret[t] = RetErr("Resolve") => (pc[t] = "idle" /\ cur[t] = 0))
    /\ [](\A c \in ConnIds : conn[c].val # RetErr("Resolve"))

\* A blocking connect returned the resolver's error in a process where REMOTE
\* was never evaluated and no connect was made.
C19_Witness ==
    \E t \in Threads :
        /\ ret[t] = RetErr("Resolve") /\ mode[t] = "sync" /\ pc[t] = "idle"
        /\ once = "new" /\ reactors = 0 /\ Len(conn) = 0

\* ------------------------------------------------------------------ no retries
\* How many times call k stands in the queue q.
Occurrences(q, k) == Cardinality({i \in 1..Len(q) : q[i] = k})

C18_BlockingConnectOnReactorDeadlocks ==
    /\ [][pc[ReactorThread] = "wait" =>
            /\ pc'[ReactorThread] = "wait"
            /\ \A c \in ConnIds :
                  /\ conn'[c].completes = conn[c].completes
                  /\ conn'[c].attempts = conn[c].attempts
                  /\ conn'[c].task \in {conn[c].task, "queued"}]_vars
    /\ [](pc[ReactorThread] = "wait" =>
            /\ cur[ReactorThread] \in ConnIds
            /\ conn[cur[ReactorThread]].task = "queued"
            /\ conn[cur[ReactorThread]].os = "empty"
            /\ conn[cur[ReactorThread]].attempts = 0
            /\ ~ENABLED wait(ReactorThread)
            /\ \A c \in ConnIds : ~ENABLED ReactorRun(c))
    /\ [](pc[ReactorThread] \in {"idle", "deref", "wait"})
    /\ []((mode[ReactorThread] = "sync" /\ pc[ReactorThread] = "idle") =>
            (cur[ReactorThread] = 0 /\ ret[ReactorThread].tag = "Err"))

\* The reactor thread waits in a blocking connect whose work is queued behind
\* it, and a caller thread waits on a connect that the blocked reactor will
\* never run.
C18_Witness ==
    /\ pc[ReactorThread] = "wait"
    /\ conn[cur[ReactorThread]].task = "queued"
    /\ \E t \in Threads :
          /\ pc[t] = "wait" /\ cur[t] # cur[ReactorThread]
          /\ conn[cur[t]].task = "queued" /\ conn[cur[t]].os = "empty"

====
